---- MODULE Spec2Model ----
(***************************************************************************)
(* Verification model of disco-sdk's asynchronous locks                    *)
(* (src/src/utils/lock.ts: Lock, LockManager) and of the nonce source       *)
(* built on them (src/src/module/MultiSigNonce.ts:                          *)
(* MultiSigReplayProtection).                                               *)
(*                                                                         *)
(* JavaScript runs one task at a time: the code between two awaits is one  *)
(* atomic step.  A step of the model is therefore either the synchronous   *)
(* part of a call (up to its first suspension), or the continuation that   *)
(* the microtask queue runs after a promise has been resolved, or the      *)
(* settling of an external promise (func, the ledger queries).             *)
(***************************************************************************)
EXTENDS Integers, Sequences, FiniteSets, TLC

\* ------------------------------------------------------------------ bounds
NumCallers == 3
NumKeys == 2

Callers == 1..NumCallers
Keys == 1..NumKeys
\* The lock a caller uses: a key of the LockManager, or DirectLock for a Lock
\* object used directly (as MultiSigReplayProtection uses this.lock).
DirectLock == 0
Targets == {DirectLock} \cup Keys

\* this.nonce before its first assignment
Undefined == -1

VARIABLES
    lock,       \* a Lock object used directly: [mLocked, waiters]
    locks,      \* LockManager.locks: an object whose properties are the keys present
    pc,         \* where each caller's asynchronous call stands
    mode,       \* which call the caller made
    key,        \* the lock the caller's call is about
    outcome,    \* how the caller's func / ledger query settled
    result,     \* how the caller's call completed
    released,   \* how many times the caller's call has called release
    arrivals,   \* history: per lock, the callers in the order they called acquire
    grants,     \* history: per lock, the callers in the order acquire resolved for them
    last,       \* history: the operation the last step performed
    nonce,      \* MultiSigReplayProtection.nonce (Undefined until resolved)
    code,       \* ledger: the code getCode(forwarderAddress) reports
    safeNonce,  \* ledger: the number gnosisSafe.nonce() reports
    ret,        \* the value getNonce returned to the caller
    encoded,    \* the string getEncodedReplayProtection resolved to (hex digits)
    queries,    \* history: how many initial resolutions (getCode queries) were started
    changed,    \* history: whether the ledger changed since construction
    doneAtCall  \* history: how many calls had completed when the caller issued its call

vars == <<lock, locks, pc, mode, key, outcome, result, released, arrivals, grants,
          last, nonce, code, safeNonce, ret, encoded, queries, changed, doneAtCall>>

lockVars == <<lock, locks>>
nonceVars == <<nonce, code, safeNonce, ret, encoded, queries, changed>>

\* -------------------------------------------------------------------- Lock
\* private waiters = []; private mLocked = false
NewLock == [mLocked |-> FALSE, waiters |-> <<>>]

\* A faulty acquire that puts the new waiter at the head of the queue (unshift
\* for push).
LockAcquireUnshift(L, c) ==
    IF ~L.mLocked
      THEN [lock |-> [L EXCEPT !.mLocked = TRUE], resolved |-> TRUE]
      ELSE [lock |-> [L EXCEPT !.waiters = <<c>> \o @], resolved |-> FALSE]

\* A faulty acquire that does not wait when the lock is held.
LockAcquireBarging(L, c) == [lock |-> [L EXCEPT !.mLocked = TRUE], resolved |-> TRUE]

\* Lock.acquire() called by c: the lock after the call, and whether the returned
\* promise is already resolved (otherwise c's resolve function is queued).
LockAcquire(L, c) ==
    IF ~L.mLocked
      THEN [lock |-> [L EXCEPT !.mLocked = TRUE], resolved |-> TRUE]
      ELSE [lock |-> [L EXCEPT !.waiters = Append(@, c)], resolved |-> FALSE]

\* A faulty release that reopens the lock while it hands it to the head waiter.
LockReleaseUnlocking(L) ==
    IF ~L.mLocked
      THEN [lock |-> L, woken |-> <<>>, threw |-> TRUE]
      ELSE IF Len(L.waiters) > 0
        THEN [lock |-> [L EXCEPT !.waiters = Tail(@), !.mLocked = FALSE],
              woken |-> <<Head(L.waiters)>>, threw |-> FALSE]
        ELSE [lock |-> [L EXCEPT !.mLocked = FALSE], woken |-> <<>>, threw |-> FALSE]

\* A faulty release that takes the head waiter off the queue without calling
\* its resolve function.
LockReleaseNoResolve(L) ==
    IF ~L.mLocked
      THEN [lock |-> L, woken |-> <<>>, threw |-> TRUE]
      ELSE IF Len(L.waiters) > 0
        THEN [lock |-> [L EXCEPT !.waiters = Tail(@)], woken |-> <<>>, threw |-> FALSE]
        ELSE [lock |-> [L EXCEPT !.mLocked = FALSE], woken |-> <<>>, threw |-> FALSE]

\* A faulty release that resolves every queued waiter at once.
LockReleaseWakesAll(L) ==
    IF ~L.mLocked
      THEN [lock |-> L, woken |-> <<>>, threw |-> TRUE]
      ELSE IF Len(L.waiters) > 0
        THEN [lock |-> [L EXCEPT !.waiters = <<>>], woken |-> L.waiters, threw |-> FALSE]
        ELSE [lock |-> [L EXCEPT !.mLocked = FALSE], woken |-> <<>>, threw |-> FALSE]

\* A faulty release that resolves the waiter queued last (pop for shift).
LockReleasePop(L) ==
    IF ~L.mLocked
      THEN [lock |-> L, woken |-> <<>>, threw |-> TRUE]
      ELSE IF Len(L.waiters) > 0
        THEN [lock |-> [L EXCEPT !.waiters = SubSeq(@, 1, Len(@) - 1)],
              woken |-> <<L.waiters[Len(L.waiters)]>>, threw |-> FALSE]
        ELSE [lock |-> [L EXCEPT !.mLocked = FALSE], woken |-> <<>>, threw |-> FALSE]

\* Lock.release(): the lock after the call, the waiters whose promise it resolved,
\* and whether it threw.
LockRelease(L) ==
    IF ~L.mLocked
      THEN [lock |-> L, woken |-> <<>>, threw |-> TRUE]
      ELSE IF Len(L.waiters) > 0
        THEN [lock |-> [L EXCEPT !.waiters = Tail(@)],
              woken |-> <<Head(L.waiters)>>, threw |-> FALSE]
        ELSE [lock |-> [L EXCEPT !.mLocked = FALSE], woken |-> <<>>, threw |-> FALSE]

\* ------------------------------------------------------------- LockManager
NoError == "none"
NotLockedError == "Tried to release a Lock that was not locked"
NoLockError == "There is no lock for key"
FuncError == "func rejected"

\* private locks: {[key: string]: Lock} = {}
NoLocks == [k \in {} |-> NewLock]
\* this.locks[key] = L
Put(reg, k, L) == [x \in (DOMAIN reg) \cup {k} |-> IF x = k THEN L ELSE reg[x]]
\* delete this.locks[key]
Delete(reg, k) == [x \in (DOMAIN reg) \ {k} |-> reg[x]]

\* A faulty acquire(key) that stores a new Lock under the key on every call.
MgrAcquireAlwaysCreates(reg, k, c) ==
    LET r == LockAcquire(NewLock, c)
    IN  [locks |-> Put(reg, k, r.lock), resolved |-> r.resolved]

\* LockManager.acquire(key) called by c, up to its await.
MgrAcquire(reg, k, c) ==
    LET L == IF k \notin DOMAIN reg THEN NewLock ELSE reg[k]
        r == LockAcquire(L, c)
    IN  [locks |-> Put(reg, k, r.lock), resolved |-> r.resolved]

\* A faulty release(key) that never deletes the entry.
MgrReleaseKeepsEntry(reg, k) ==
    IF k \notin DOMAIN reg
      THEN [locks |-> reg, woken |-> <<>>, threw |-> NoLockError]
      ELSE LET r == LockRelease(reg[k])
           IN  IF r.threw
                 THEN [locks |-> reg, woken |-> <<>>, threw |-> NotLockedError]
                 ELSE [locks |-> Put(reg, k, r.lock), woken |-> r.woken, threw |-> NoError]

\* A faulty release(key) that deletes the entry without looking at locked.
MgrReleaseAlwaysDeletes(reg, k) ==
    IF k \notin DOMAIN reg
      THEN [locks |-> reg, woken |-> <<>>, threw |-> NoLockError]
      ELSE LET r == LockRelease(reg[k])
           IN  IF r.threw
                 THEN [locks |-> reg, woken |-> <<>>, threw |-> NotLockedError]
                 ELSE [locks |-> Delete(reg, k), woken |-> r.woken, threw |-> NoError]

\* A faulty release(key) that looks the Lock up as acquire does, creating it
\* when the key has none.
MgrReleaseCreatesEntry(reg, k) ==
    LET reg1 == IF k \notin DOMAIN reg THEN Put(reg, k, NewLock) ELSE reg
        r == LockRelease(reg1[k])
    IN  IF r.threw
          THEN [locks |-> reg1, woken |-> <<>>, threw |-> NotLockedError]
          ELSE [locks |-> IF ~r.lock.mLocked
                            THEN Delete(reg1, k)
                            ELSE Put(reg1, k, r.lock),
                woken |-> r.woken, threw |-> NoError]

\* A faulty release(key) that empties the whole mapping when the key's lock
\* becomes free.
MgrReleaseClearsAll(reg, k) ==
    IF k \notin DOMAIN reg
      THEN [locks |-> reg, woken |-> <<>>, threw |-> NoLockError]
      ELSE LET r == LockRelease(reg[k])
           IN  IF r.threw
                 THEN [locks |-> reg, woken |-> <<>>, threw |-> NotLockedError]
                 ELSE [locks |-> IF ~r.lock.mLocked
                                   THEN NoLocks
                                   ELSE Put(reg, k, r.lock),
                       woken |-> r.woken, threw |-> NoError]

\* LockManager.release(key).
MgrRelease(reg, k) ==
    IF k \notin DOMAIN reg
      THEN [locks |-> reg, woken |-> <<>>, threw |-> NoLockError]
      ELSE LET r == LockRelease(reg[k])
           IN  IF r.threw
                 THEN [locks |-> reg, woken |-> <<>>, threw |-> NotLockedError]
                 ELSE [locks |-> IF ~r.lock.mLocked
                                   THEN Delete(reg, k)
                                   ELSE Put(reg, k, r.lock),
                       woken |-> r.woken, threw |-> NoError]

\* A faulty withLock that releases after func instead of in a finally block.
WithLockExitNoFinally(reg, k, o) ==
    LET r == MgrRelease(reg, k)
    IN  IF o = "ok"
          THEN [locks |-> r.locks, woken |-> r.woken, releases |-> 1,
                result |-> IF r.threw # NoError THEN r.threw ELSE "value"]
          ELSE [locks |-> reg, woken |-> <<>>, releases |-> 0, result |-> FuncError]

\* A faulty withLock that resolves to a value even when func rejected.
WithLockExitSwallows(reg, k, o) ==
    LET r == MgrRelease(reg, k)
    IN  [locks |-> r.locks, woken |-> r.woken, releases |-> 1,
         result |-> IF r.threw # NoError THEN r.threw ELSE "value"]

\* A faulty withLock that calls release(key) a second time after the finally
\* block's release.
WithLockExitReleasesTwice(reg, k, o) ==
    LET r1 == MgrRelease(reg, k)
        r2 == MgrRelease(r1.locks, k)
    IN  [locks |-> r2.locks, woken |-> r1.woken \o r2.woken, releases |-> 2,
         result |-> IF r1.threw # NoError THEN r1.threw
                    ELSE IF r2.threw # NoError THEN r2.threw
                    ELSE IF o = "ok" THEN "value" ELSE FuncError]

\* The exit of LockManager.withLock once func has settled with outcome o: the
\* finally block calls release(key), then the call returns func's value or
\* rethrows func's error; an error thrown by the finally block replaces both.
WithLockExit(reg, k, o) ==
    LET r == MgrRelease(reg, k)
    IN  [locks |-> r.locks, woken |-> r.woken, releases |-> 1,
         result |-> IF r.threw # NoError THEN r.threw
                    ELSE IF o = "ok" THEN "value" ELSE FuncError]

\* ------------------------------------------------------------ the callers
\* The step just taken, for the properties that speak of "after a release":
\* the lock it was about, the error it threw, and the length the waiter queue
\* had before it.
Other == [op |-> "other", key |-> DirectLock, threw |-> NoError, queued |-> 0]
Released(t, err, n) == [op |-> "release", key |-> t, threw |-> err, queued |-> n]
Acquired(t, n) == [op |-> "acquire", key |-> t, threw |-> NoError, queued |-> n]

\* The waiter queue of lock t as the program holds it.
Queue(t) ==
    IF t = DirectLock THEN lock.waiters
    ELSE IF t \in DOMAIN locks THEN locks[t].waiters ELSE <<>>

\* resolve() of a queued acquire promise: the waiter's continuation is scheduled.
Wake(p, woken) == [c \in Callers |-> IF \E i \in 1..Len(woken) : woken[i] = c
                                       THEN "resuming" ELSE p[c]]

InitCalls ==
    /\ lock = NewLock
    /\ locks = NoLocks
    /\ pc = [c \in Callers |-> "idle"]
    /\ mode = [c \in Callers |-> "none"]
    /\ key = [c \in Callers |-> DirectLock]
    /\ outcome = [c \in Callers |-> "none"]
    /\ result = [c \in Callers |-> "none"]
    /\ released = [c \in Callers |-> 0]
    /\ arrivals = [t \in Targets |-> <<>>]
    /\ grants = [t \in Targets |-> <<>>]
    /\ last = Other
    /\ nonce = Undefined
    /\ ret = [c \in Callers |-> Undefined]
    /\ encoded = [c \in Callers |-> <<>>]
    /\ queries = 0
    /\ changed = FALSE
    /\ doneAtCall = [c \in Callers |-> 0]

Init ==
    /\ InitCalls
    /\ code = "0x"
    /\ safeNonce = 0

Completed == Cardinality({c \in Callers : pc[c] = "done"})

\* The synchronous part of an acquire by c on lock t, whatever call makes it.
\* Callers are named by the order in which they issue their calls.
Acquire(c, t, m) ==
    /\ pc[c] = "idle"
    /\ \A d \in Callers : d < c => pc[d] # "idle"
    /\ LET r == IF t = DirectLock THEN LockAcquire(lock, c) ELSE MgrAcquire(locks, t, c)
       IN  /\ lock' = IF t = DirectLock THEN r.lock ELSE lock
           /\ locks' = IF t = DirectLock THEN locks ELSE r.locks
           /\ pc' = [pc EXCEPT ![c] = IF r.resolved THEN "resuming" ELSE "waiting"]
           /\ grants' = IF r.resolved THEN [grants EXCEPT ![t] = Append(@, c)] ELSE grants
    /\ arrivals' = [arrivals EXCEPT ![t] = Append(@, c)]
    /\ mode' = [mode EXCEPT ![c] = m]
    /\ key' = [key EXCEPT ![c] = t]
    /\ last' = Acquired(t, Len(Queue(t)))
    /\ UNCHANGED <<outcome, result, released, nonceVars, doneAtCall>>

\* A caller written as the Lock's summary asks: await lock.acquire(); try {...}
\* finally { lock.release() }.
LockUserAcquire(c) == Acquire(c, DirectLock, "lock")

\* await manager.acquire(k); ...; manager.release(k)
MgrUserAcquire(c, k) == Acquire(c, k, "pair")

\* manager.withLock(k, func), up to the await of acquire.
CallWithLock(c, k) == Acquire(c, k, "withLock")

\* The continuation after "await acquire" runs: the caller is in its critical
\* section (for withLock: func has been called and is pending).
Resume(c) ==
    /\ pc[c] = "resuming"
    /\ mode[c] \in {"lock", "pair", "withLock"}
    /\ pc' = [pc EXCEPT ![c] = "cs"]
    /\ last' = Other
    /\ UNCHANGED <<lockVars, mode, key, outcome, result, released, arrivals, grants,
                   nonceVars, doneAtCall>>

\* The effect on the callers of a release on lock t that woke `woken`.
Handoff(c, t, woken, err, res, n) ==
    /\ pc' = [Wake(pc, woken) EXCEPT ![c] = "done"]
    /\ grants' = [grants EXCEPT ![t] = @ \o woken]
    /\ result' = [result EXCEPT ![c] = res]
    /\ released' = [released EXCEPT ![c] = @ + n]
    /\ last' = Released(t, err, Len(Queue(t)))

\* lock.release() at the end of the critical section.
LockUserRelease(c) ==
    /\ pc[c] = "cs"
    /\ mode[c] = "lock"
    /\ LET r == LockRelease(lock)
           err == IF r.threw THEN NotLockedError ELSE NoError
       IN  /\ lock' = r.lock
           /\ Handoff(c, DirectLock, r.woken, err, IF r.threw THEN err ELSE "value", 1)
    /\ UNCHANGED <<locks, mode, key, outcome, arrivals, nonceVars, doneAtCall>>

\* manager.release(k) at the end of the critical section.
MgrUserRelease(c) ==
    /\ pc[c] = "cs"
    /\ mode[c] = "pair"
    /\ LET r == MgrRelease(locks, key[c])
       IN  /\ locks' = r.locks
           /\ Handoff(c, key[c], r.woken, r.threw,
                      IF r.threw # NoError THEN r.threw ELSE "value", 1)
    /\ UNCHANGED <<lock, mode, key, outcome, arrivals, nonceVars, doneAtCall>>

\* func's promise settles: it resolves ("ok") or rejects ("fail").
FuncSettles(c, o) ==
    /\ pc[c] = "cs"
    /\ mode[c] = "withLock"
    /\ pc' = [pc EXCEPT ![c] = "settled"]
    /\ outcome' = [outcome EXCEPT ![c] = o]
    /\ last' = Other
    /\ UNCHANGED <<lockVars, mode, key, result, released, arrivals, grants, nonceVars,
                   doneAtCall>>

\* withLock's continuation after "await func()": finally, then return or rethrow.
WithLockFinally(c) ==
    /\ pc[c] = "settled"
    /\ mode[c] = "withLock"
    /\ LET r == WithLockExit(locks, key[c], outcome[c])
       IN  /\ locks' = r.locks
           /\ Handoff(c, key[c], r.woken,
                      IF r.result \in {NoLockError, NotLockedError} THEN r.result
                      ELSE NoError,
                      r.result, r.releases)
    /\ UNCHANGED <<lock, mode, key, outcome, arrivals, nonceVars, doneAtCall>>

Next ==
    \/ \E c \in Callers : LockUserAcquire(c)
    \/ \E c \in Callers, k \in Keys : MgrUserAcquire(c, k)
    \/ \E c \in Callers, k \in Keys : CallWithLock(c, k)
    \/ \E c \in Callers : Resume(c)
    \/ \E c \in Callers : LockUserRelease(c)
    \/ \E c \in Callers : MgrUserRelease(c)
    \/ \E c \in Callers, o \in {"ok", "fail"} : FuncSettles(c, o)
    \/ \E c \in Callers : WithLockFinally(c)

\* Callers that pair every release with their own acquire.
Spec == Init /\ [][Next]_vars

\* The scheduling the event loop and the callers' discipline give: a resolved
\* promise's continuation runs, func settles, and a caller in its critical
\* section releases.  Nothing obliges a caller to issue a call.
Proceeds(c) ==
    \/ Resume(c)
    \/ LockUserRelease(c)
    \/ MgrUserRelease(c)
    \/ \E o \in {"ok", "fail"} : FuncSettles(c, o)
    \/ WithLockFinally(c)

Fairness == \A c \in Callers : WF_vars(Proceeds(c))

\* Callers that use only acquire and release, on the lock or on a key.
NextPaired ==
    \/ \E c \in Callers : LockUserAcquire(c)
    \/ \E c \in Callers, k \in Keys : MgrUserAcquire(c, k)
    \/ \E c \in Callers : Resume(c)
    \/ \E c \in Callers : LockUserRelease(c)
    \/ \E c \in Callers : MgrUserRelease(c)

SpecFair == Init /\ [][NextPaired]_vars /\ Fairness

\* A call that is only release(k), by code that has acquired nothing.
BareMgrRelease(c, k) ==
    /\ pc[c] = "idle"
    /\ \A d \in Callers : d < c => pc[d] # "idle"
    /\ mode' = [mode EXCEPT ![c] = "release"]
    /\ key' = [key EXCEPT ![c] = k]
    /\ LET r == MgrRelease(locks, k)
       IN  /\ locks' = r.locks
           /\ Handoff(c, k, r.woken, r.threw,
                      IF r.threw # NoError THEN r.threw ELSE "value", 1)
    /\ UNCHANGED <<lock, outcome, arrivals, nonceVars, doneAtCall>>

\* A call that is only lock.release(), by code that has acquired nothing.
BareLockRelease(c) ==
    /\ pc[c] = "idle"
    /\ \A d \in Callers : d < c => pc[d] # "idle"
    /\ mode' = [mode EXCEPT ![c] = "release"]
    /\ key' = [key EXCEPT ![c] = DirectLock]
    /\ LET r == LockRelease(lock)
           err == IF r.threw THEN NotLockedError ELSE NoError
       IN  /\ lock' = r.lock
           /\ Handoff(c, DirectLock, r.woken, err, IF r.threw THEN err ELSE "value", 1)
    /\ UNCHANGED <<locks, outcome, arrivals, nonceVars, doneAtCall>>

NextMisuse ==
    \/ Next
    \/ \E c \in Callers, k \in Keys : BareMgrRelease(c, k)
    \/ \E c \in Callers : BareLockRelease(c)

\* Any sequence of acquire, release and withLock calls, paired or not.
SpecMisuse == Init /\ [][NextMisuse]_vars

\* A caller that acquires lock t and never calls release.
StallAcquire(c, t) == Acquire(c, t, "stall")

\* Its continuation after "await acquire": it holds the lock from here on.
StallResume(c) ==
    /\ pc[c] = "resuming"
    /\ mode[c] \in {"stall", "reenter"}
    /\ pc' = [pc EXCEPT ![c] = "cs"]
    /\ last' = Other
    /\ UNCHANGED <<lockVars, mode, key, outcome, result, released, arrivals, grants,
                   nonceVars, doneAtCall>>

\* It calls acquire on the lock it holds, without having released it.
Reenter(c) ==
    /\ pc[c] = "cs"
    /\ mode[c] = "stall"
    /\ LET t == key[c]
           r == IF t = DirectLock THEN LockAcquire(lock, c) ELSE MgrAcquire(locks, t, c)
       IN  /\ lock' = IF t = DirectLock THEN r.lock ELSE lock
           /\ locks' = IF t = DirectLock THEN locks ELSE r.locks
           /\ pc' = [pc EXCEPT ![c] = IF r.resolved THEN "resuming" ELSE "waiting"]
           /\ grants' = IF r.resolved THEN [grants EXCEPT ![t] = Append(@, c)] ELSE grants
           /\ arrivals' = [arrivals EXCEPT ![t] = Append(@, c)]
           /\ last' = Acquired(t, Len(Queue(t)))
    /\ mode' = [mode EXCEPT ![c] = "reenter"]
    /\ UNCHANGED <<key, outcome, result, released, nonceVars, doneAtCall>>

NextStall ==
    \/ NextPaired
    \/ \E c \in Callers, t \in Targets : StallAcquire(c, t)
    \/ \E c \in Callers : StallResume(c)
    \/ \E c \in Callers : Reenter(c)

\* Paired callers, with callers that acquire and never release.
SpecStall == Init /\ [][NextStall]_vars

NextWithLock ==
    \/ \E c \in Callers, k \in Keys : CallWithLock(c, k)
    \/ \E c \in Callers : Resume(c)
    \/ \E c \in Callers, o \in {"ok", "fail"} : FuncSettles(c, o)
    \/ \E c \in Callers : WithLockFinally(c)

\* A LockManager used only through withLock, with funcs that do not touch it.
SpecWithLock == Init /\ [][NextWithLock]_vars

\* ------------------------------------------------- MultiSigReplayProtection
\* What getCode can report: no code (Geth), no code (ganache-core v2.2.1, see
\* ReplayGuard.accessNonceStore), or the code of a deployed Gnosis Safe.
EmptyCodes == {"0x", "0x0"}
Codes == EmptyCodes \cup {"0x6080"}
\* What a deployed Gnosis Safe can report as its nonce.
SafeNonces == {0, 1, 41}
\* The states of the ledger: an address without code has no nonce to report.
LedgerStates == {l \in Codes \X SafeNonces : l[1] \in EmptyCodes => l[2] = 0}

QueryError == "ledger query failed"

\* defaultAbiCoder.encode(["uint"], [n]): one 32-byte word, as hex digits.
WordHexDigits == 64
RECURSIVE HexDigits(_)
HexDigits(n) == IF n < 16 THEN <<n>> ELSE Append(HexDigits(n \div 16), n % 16)
EncodeUint(n) ==
    LET d == HexDigits(n)
        pad == WordHexDigits - Len(d)
    IN  [i \in 1..WordHexDigits |-> IF i <= pad THEN 0 ELSE d[i - pad]]
\* The number a word of hex digits stands for.
RECURSIVE DecodeUint(_)
DecodeUint(w) == IF w = <<>> THEN 0 ELSE 16 * DecodeUint(SubSeq(w, 1, Len(w) - 1)) + w[Len(w)]

\* A faulty getNonce that returns the counter as it was before the increment.
GetNonceStartStale(n) ==
    IF n = Undefined
      THEN [query |-> TRUE, nonce |-> n, value |-> n]
      ELSE [query |-> FALSE, nonce |-> n + 1, value |-> n]

\* A faulty getNonce that resolves the initial value on every call.
GetNonceStartAlwaysQueries(n) == [query |-> TRUE, nonce |-> n, value |-> n]

\* getNonce up to its first await: whether it queries the ledger, and otherwise
\* the incremented this.nonce and the value returned.
GetNonceStart(n) ==
    IF n = Undefined
      THEN [query |-> TRUE, nonce |-> n, value |-> n]
      ELSE [query |-> FALSE, nonce |-> n + 1, value |-> n + 1]

\* A faulty deployment test with the comparison inverted.
IsDeployedInverted(codeStr) == codeStr = "0x"

\* isDeployed !== "0x"
IsDeployed(codeStr) == codeStr # "0x"

\* A faulty getEncodedReplayProtection that releases after the encoding instead
\* of in a finally block.
ReplayProtectionExitNoFinally(L, o, v) ==
    LET r == LockRelease(L)
    IN  IF o = "ok"
          THEN [lock |-> r.lock, woken |-> r.woken, releases |-> 1,
                result |-> IF r.threw THEN NotLockedError ELSE "value",
                encoded |-> IF r.threw THEN <<>> ELSE EncodeUint(v)]
          ELSE [lock |-> L, woken |-> <<>>, releases |-> 0,
                result |-> QueryError, encoded |-> <<>>]

\* The exit of getEncodedReplayProtection once getNonce has settled with outcome
\* o and value v: the encoding, the finally block's lock.release(), then the
\* return or the rethrow; an error thrown by the finally block replaces both.
ReplayProtectionExit(L, o, v) ==
    LET r == LockRelease(L)
    IN  [lock |-> r.lock, woken |-> r.woken, releases |-> 1,
         result |-> IF r.threw THEN NotLockedError
                    ELSE IF o = "ok" THEN "value" ELSE QueryError,
         encoded |-> IF ~r.threw /\ o = "ok" THEN EncodeUint(v) ELSE <<>>]

InitNonce ==
    /\ InitCalls
    /\ \E l \in LedgerStates : code = l[1] /\ safeNonce = l[2]

\* getEncodedReplayProtection(), up to the await of this.lock.acquire().
CallNext(c) ==
    /\ pc[c] = "idle"
    /\ \A d \in Callers : d < c => pc[d] # "idle"
    /\ LET r == LockAcquire(lock, c)
       IN  /\ lock' = r.lock
           /\ pc' = [pc EXCEPT ![c] = IF r.resolved THEN "resuming" ELSE "waiting"]
           /\ grants' = IF r.resolved
                          THEN [grants EXCEPT ![DirectLock] = Append(@, c)]
                          ELSE grants
    /\ arrivals' = [arrivals EXCEPT ![DirectLock] = Append(@, c)]
    /\ mode' = [mode EXCEPT ![c] = "next"]
    /\ doneAtCall' = [doneAtCall EXCEPT ![c] = Completed]
    /\ last' = Acquired(DirectLock, Len(Queue(DirectLock)))
    /\ UNCHANGED <<locks, key, outcome, result, released, nonceVars>>

\* The continuation after "await this.lock.acquire()": getNonce is called and
\* runs to its first await or, on the increment path, to its return.
RunGetNonce(c) ==
    /\ pc[c] = "resuming"
    /\ mode[c] = "next"
    /\ LET g == GetNonceStart(nonce)
       IN  IF g.query
             THEN /\ pc' = [pc EXCEPT ![c] = "getCode"]
                  /\ queries' = queries + 1
                  /\ UNCHANGED <<nonce, ret, outcome>>
             ELSE /\ pc' = [pc EXCEPT ![c] = "gotNonce"]
                  /\ nonce' = g.nonce
                  /\ ret' = [ret EXCEPT ![c] = g.value]
                  /\ outcome' = [outcome EXCEPT ![c] = "ok"]
                  /\ UNCHANGED queries
    /\ last' = Other
    /\ UNCHANGED <<lockVars, mode, key, result, released, arrivals, grants, code,
                   safeNonce, encoded, changed, doneAtCall>>

\* provider.getCode(forwarderAddress) settles.  When it resolves, getNonce goes
\* on: with code at the address it calls gnosisSafe.nonce(), without it sets
\* this.nonce = 0 and returns.
GetCodeSettles(c, o) ==
    /\ pc[c] = "getCode"
    /\ IF o = "fail"
         THEN /\ pc' = [pc EXCEPT ![c] = "failed"]
              /\ outcome' = [outcome EXCEPT ![c] = "fail"]
              /\ UNCHANGED <<nonce, ret>>
         ELSE IF IsDeployed(code)
           THEN /\ pc' = [pc EXCEPT ![c] = "getSafeNonce"]
                /\ UNCHANGED <<nonce, ret, outcome>>
           ELSE /\ pc' = [pc EXCEPT ![c] = "gotNonce"]
                /\ nonce' = 0
                /\ ret' = [ret EXCEPT ![c] = 0]
                /\ outcome' = [outcome EXCEPT ![c] = "ok"]
    /\ last' = Other
    /\ UNCHANGED <<lockVars, mode, key, result, released, arrivals, grants, code,
                   safeNonce, encoded, queries, changed, doneAtCall>>

\* gnosisSafe.nonce() settles: it rejects, or (only when a Safe is deployed at
\* the address) resolves to the Safe's nonce, which getNonce stores and returns.
SafeNonceSettles(c, o) ==
    /\ pc[c] = "getSafeNonce"
    /\ IF o = "fail"
         THEN /\ pc' = [pc EXCEPT ![c] = "failed"]
              /\ outcome' = [outcome EXCEPT ![c] = "fail"]
              /\ UNCHANGED <<nonce, ret>>
         ELSE /\ code \notin EmptyCodes
              /\ pc' = [pc EXCEPT ![c] = "gotNonce"]
              /\ nonce' = safeNonce
              /\ ret' = [ret EXCEPT ![c] = safeNonce]
              /\ outcome' = [outcome EXCEPT ![c] = "ok"]
    /\ last' = Other
    /\ UNCHANGED <<lockVars, mode, key, result, released, arrivals, grants, code,
                   safeNonce, encoded, queries, changed, doneAtCall>>

\* The continuation after "await this.getNonce()": encode, finally, return.
ReplayProtectionFinally(c) ==
    /\ pc[c] \in {"gotNonce", "failed"}
    /\ LET r == ReplayProtectionExit(lock, outcome[c], ret[c])
       IN  /\ lock' = r.lock
           /\ encoded' = [encoded EXCEPT ![c] = r.encoded]
           /\ Handoff(c, DirectLock, r.woken,
                      IF r.result = NotLockedError THEN r.result ELSE NoError,
                      r.result, r.releases)
    /\ UNCHANGED <<locks, mode, key, outcome, arrivals, nonce, code, safeNonce, ret,
                   queries, changed, doneAtCall>>

\* The ledger changes: the Safe is deployed, executes transactions, or the
\* chain is rolled back.
LedgerChange(l) ==
    /\ l # <<code, safeNonce>>
    /\ code' = l[1]
    /\ safeNonce' = l[2]
    /\ changed' = TRUE
    /\ last' = Other
    /\ UNCHANGED <<lockVars, pc, mode, key, outcome, result, released, arrivals, grants,
                   nonce, ret, encoded, queries, doneAtCall>>

NextNonce ==
    \/ \E c \in Callers : CallNext(c)
    \/ \E c \in Callers : RunGetNonce(c)
    \/ \E c \in Callers, o \in {"ok", "fail"} : GetCodeSettles(c, o)
    \/ \E c \in Callers, o \in {"ok", "fail"} : SafeNonceSettles(c, o)
    \/ \E c \in Callers : ReplayProtectionFinally(c)
    \/ \E l \in LedgerStates : LedgerChange(l)

\* Callers of getEncodedReplayProtection on one MultiSigReplayProtection.
SpecNonce == InitNonce /\ [][NextNonce]_vars

\* ------------------------------------------------------------ properties
IsPrefix(s, t) == Len(s) <= Len(t) /\ \A i \in 1..Len(s) : s[i] = t[i]
Range(s) == {s[i] : i \in 1..Len(s)}

\* The callers whose acquire on lock t has been granted and who have not released.
Holders(t) ==
    {c \in Callers : /\ mode[c] \in {"lock", "pair", "withLock"}
                     /\ key[c] = t
                     /\ pc[c] \in {"resuming", "cs", "settled"}}
\* The callers suspended in acquire on lock t.
Waiting(t) ==
    {c \in Callers : mode[c] \in {"lock", "pair", "withLock"} /\ key[c] = t /\ pc[c] = "waiting"}

\* C1: at most one caller is between the grant of its acquire and its release,
\* on the directly used Lock and on every key of the LockManager.
MutualExclusion == \A t \in Targets : Cardinality(Holders(t)) <= 1

\* A caller has just called acquire while the lock is being handed to a waiter
\* (the second caller granted, not yet resumed), and was queued behind it.
ArrivalDuringHandoff ==
    \E t \in Targets :
        /\ last = Acquired(t, 0)
        /\ Len(grants[t]) = 2
        /\ pc[grants[t][2]] = "resuming"
        /\ Waiting(t) # {}

\* C2: on every lock the callers are granted in the order they called acquire.
FifoGrants == \A t \in Targets : IsPrefix(grants[t], arrivals[t])

\* Three callers contended on one lock; the third is granted by the second
\* hand-off.
ThreeGrantedInOrder ==
    \E t \in Targets :
        /\ Len(grants[t]) = 3
        /\ pc[grants[t][1]] = "done"
        /\ pc[grants[t][2]] = "done"
        /\ pc[grants[t][3]] = "resuming"

\* The calls on key k that have been issued and are not complete.
Pending(k) ==
    {c \in Callers : mode[c] \in {"pair", "withLock"} /\ key[c] = k /\ pc[c] \notin {"idle", "done"}}

\* C7: a withLock call has not called release while it waits for, or runs under,
\* the lock; it has called release exactly once when it completes, whether func
\* resolved or rejected; and a key on which no call is pending is not held.
GuaranteedRelease ==
    /\ \A c \in Callers :
          mode[c] = "withLock" =>
              /\ pc[c] \in {"waiting", "resuming", "cs", "settled"} => released[c] = 0
              /\ pc[c] = "done" => released[c] = 1
    /\ \A k \in Keys : Pending(k) = {} => k \notin DOMAIN locks

\* Two withLock calls on one key are complete, one whose func rejected and one
\* whose func resolved, and the key is free again.
ReleasedOnBothPaths ==
    \E c, d \in Callers :
        /\ mode[c] = "withLock" /\ mode[d] = "withLock" /\ key[c] = key[d]
        /\ pc[c] = "done" /\ pc[d] = "done"
        /\ result[c] = FuncError /\ result[d] = "value"
        /\ released[c] = 1 /\ released[d] = 1
        /\ key[c] \notin DOMAIN locks

\* C8: a key is in the mapping exactly when its Lock is locked or has queued
\* waiters: every entry is locked or has waiters, every caller suspended on a key
\* is queued in the entry of that key, an acquire leaves an entry, and the
\* release that leaves the Lock unlocked with no waiters removes the entry while
\* any other release keeps it.
RegistryInvariant ==
    /\ \A k \in DOMAIN locks : locks[k].mLocked \/ Len(locks[k].waiters) > 0
    /\ \A k \in Keys : \A c \in Waiting(k) :
          k \in DOMAIN locks /\ c \in Range(locks[k].waiters)
    /\ (last.op = "acquire" /\ last.key \in Keys) => last.key \in DOMAIN locks
    /\ (last.op = "release" /\ last.key \in Keys /\ last.threw = NoError) =>
          (last.key \in DOMAIN locks <=> last.queued > 0)

\* A release by code that holds nothing has removed the entry of a key that a
\* caller still believes it holds, while another key is held.
EntryRemovedOthersKept ==
    \E k \in Keys, j \in Keys :
        /\ k # j
        /\ last = Released(k, NoError, 0)
        /\ k \notin DOMAIN locks
        /\ Holders(k) # {}
        /\ j \in DOMAIN locks /\ Holders(j) # {}

\* C9 as stated: after a release(key) that leaves the key's waiter queue empty,
\* the key is absent from the mapping.
AbsentAfterQueueEmptied ==
    (last.op = "release" /\ last.key \in Keys /\ last.threw = NoError
        /\ Queue(last.key) = <<>>) => last.key \notin DOMAIN locks

\* C9 amended: after a release(key) that found the waiter queue already empty
\* the key is absent; after one that took the last waiter off the queue the key
\* is still present, locked, and that waiter has been granted the lock.
AbsentAfterReleaseWithNoWaiter ==
    (last.op = "release" /\ last.key \in Keys /\ last.threw = NoError) =>
        /\ last.queued = 0 => last.key \notin DOMAIN locks
        /\ last.queued = 1 =>
              /\ last.key \in DOMAIN locks
              /\ locks[last.key] = [mLocked |-> TRUE, waiters |-> <<>>]
              /\ \E c \in Callers : key[c] = last.key /\ pc[c] = "resuming"

\* A caller released a key nobody else was waiting for, and the key is gone.
ReleasedLastHolder ==
    \E c \in Callers :
        /\ mode[c] = "pair" /\ pc[c] = "done" /\ result[c] = "value"
        /\ last = Released(key[c], NoError, 0)
        /\ key[c] \notin DOMAIN locks

\* C10: a release that fails changes neither the Lock nor the mapping; release
\* of an unlocked Lock and release of a key that has no entry do fail.
ErroneousReleaseHarmless ==
    [][ /\ (last'.op = "release" /\ last'.threw # NoError) =>
              (lock' = lock /\ locks' = locks)
        /\ (last'.op = "release" /\ last'.key = DirectLock /\ ~lock.mLocked) =>
              (last'.threw = NotLockedError /\ lock' = lock)
        /\ (last'.op = "release" /\ last'.key \in Keys /\ last'.key \notin DOMAIN locks) =>
              (last'.threw = NoLockError /\ locks' = locks)
      ]_vars

\* release(k) has just failed for a key that was acquired and fully released
\* before, while another key is held.
FailedReleaseOfFreeKey ==
    \E k \in Keys, j \in Keys :
        /\ k # j
        /\ last.op = "release" /\ last.key = k /\ last.threw = NoLockError
        /\ Len(arrivals[k]) > 0
        /\ k \notin DOMAIN locks
        /\ j \in DOMAIN locks /\ Holders(j) # {}

\* ------------------------------------------- properties of the nonce source
\* The calls of getEncodedReplayProtection that resolved, and those whose ledger
\* query failed.
Succeeded == {c \in Callers : mode[c] = "next" /\ pc[c] = "done" /\ result[c] = "value"}
FailedCalls == {c \in Callers : mode[c] = "next" /\ outcome[c] = "fail"}
\* The integer a resolved call returned.
Returned(c) == DecodeUint(encoded[c])
\* The callers inside getEncodedReplayProtection's try block after the acquire.
NonceHolders ==
    {c \in Callers : /\ mode[c] = "next"
                     /\ pc[c] \in {"resuming", "getCode", "getSafeNonce", "gotNonce", "failed"}}
\* The initial resolutions that have been started and have not settled.
InFlight == {c \in Callers : pc[c] \in {"getCode", "getSafeNonce"}}
Min(S) == CHOOSE x \in S : \A y \in S : x <= y
AllDone == \A c \in Callers : pc[c] = "done"

\* Every call issued so far was issued before any call had completed.
Concurrent == \A c \in Callers : doneAtCall[c] = 0
\* Every call issued so far was issued after all earlier calls had completed.
Sequential == \A c \in Callers : pc[c] # "idle" => doneAtCall[c] = c - 1

\* The returned values are distinct and consecutive.
DistinctConsecutive(S) ==
    /\ \A c, d \in S : c # d => encoded[c] # encoded[d]
    /\ S # {} => LET lo == Min({Returned(c) : c \in S})
                 IN  {Returned(c) : c \in S} = lo..(lo + Cardinality(S) - 1)

\* C3 as stated: concurrent calls return distinct consecutive integers and the
\* ledger is queried at most once (read in favour of the claim: only the calls
\* that return are asked to return distinct consecutive integers).
ConcurrentReadsQueryOnce ==
    (Concurrent /\ AllDone) =>
        /\ DistinctConsecutive(Succeeded)
        /\ queries <= 1

\* C3 amended: among concurrent calls those that resolve return distinct
\* consecutive integers; an initial resolution is started once for every call
\* that failed, at most once more, and never two at a time; when no query fails
\* the ledger is queried at most once and all K calls return.
ConcurrentReads ==
    Concurrent =>
        /\ DistinctConsecutive(Succeeded)
        /\ Cardinality(InFlight) <= 1
        /\ InFlight # {} => nonce = Undefined
        /\ queries = Cardinality(FailedCalls) + Cardinality(InFlight)
                        + (IF nonce # Undefined THEN 1 ELSE 0)
        /\ FailedCalls = {} => queries <= 1
        /\ (FailedCalls = {} /\ AllDone) => Succeeded = Callers

\* Three concurrent calls are complete: the first failed in its initial
\* resolution, the second resolved the initial value again, and the two
\* successful calls returned consecutive values.
ConcurrentWithOneFailure ==
    /\ Concurrent /\ AllDone
    /\ FailedCalls = {1}
    /\ Succeeded = {2, 3}
    /\ queries = 2
    /\ Returned(3) = Returned(2) + 1

\* The initial value the ledger reports: the Safe's nonce when a Safe is
\* deployed at the address, 0 when there is no code.
InitialValue == IF code \in EmptyCodes THEN 0 ELSE safeNonce

\* C4: sequential calls, none failing, on an unchanged ledger return the run
\* v0, v0+1, ... from the initial value the ledger reports.
SequentialRun ==
    (Sequential /\ ~changed /\ FailedCalls = {}) =>
        \A c \in Callers :
            (mode[c] = "next" /\ pc[c] = "done") =>
                /\ result[c] = "value"
                /\ Returned(c) = InitialValue + (c - 1)

\* Three sequential calls on an identity that is not deployed returned 0, 1, 2.
SequentialZeroOneTwo ==
    /\ Sequential /\ ~changed /\ code = "0x"
    /\ Succeeded = {1, 2, 3}
    /\ Returned(1) = 0 /\ Returned(2) = 1 /\ Returned(3) = 2

\* The scenario of C5: a deployed identity whose Safe reports 41, unchanged,
\* and sequential calls none of which fails.
DeployedAt41 ==
    /\ Sequential /\ ~changed /\ FailedCalls = {}
    /\ code \notin EmptyCodes /\ safeNonce = 41

\* C5 as stated: the two calls return 42 and then 43.
DeployedAt41Returns42Then43 ==
    DeployedAt41 =>
        /\ 1 \in Succeeded => Returned(1) = 42
        /\ 2 \in Succeeded => Returned(2) = 43

\* C5 amended: the two calls return 41 and then 42.
DeployedAt41Returns41Then42 ==
    DeployedAt41 =>
        /\ (mode[1] = "next" /\ pc[1] = "done") => (1 \in Succeeded /\ Returned(1) = 41)
        /\ (mode[2] = "next" /\ pc[2] = "done") => (2 \in Succeeded /\ Returned(2) = 42)

\* Both calls are complete.
TwoCallsAt41 ==
    /\ DeployedAt41
    /\ {1, 2} \subseteq Succeeded
    /\ pc[3] = "idle"

\* C6: a call whose initial resolution failed rejects with that failure, having
\* released the lock once; this.nonce stays unset through the failure; the lock
\* is held only by a call that is still running, and the failed call's release
\* unlocks it or grants it to the head waiter; and a call that runs while
\* this.nonce is unset starts the initial resolution.
FailedResolution ==
    /\ [](/\ \A c \in Callers :
                /\ pc[c] = "failed" => nonce = Undefined
                /\ (mode[c] = "next" /\ pc[c] = "done" /\ outcome[c] = "fail") =>
                      (result[c] = QueryError /\ released[c] = 1 /\ encoded[c] = <<>>)
          /\ lock.mLocked <=> NonceHolders # {}
          /\ Len(lock.waiters) > 0 => lock.mLocked)
    /\ [][\A c \in Callers :
            /\ (pc[c] # "failed" /\ pc'[c] = "failed") => nonce' = nonce
            /\ (pc[c] = "failed" /\ pc'[c] = "done") =>
                  /\ nonce' = Undefined
                  /\ IF Len(lock.waiters) > 0
                       THEN pc'[Head(lock.waiters)] = "resuming"
                       ELSE ~lock'.mLocked
            /\ (pc[c] = "resuming" /\ pc'[c] # "resuming" /\ nonce = Undefined) =>
                  (pc'[c] = "getCode" /\ queries' = queries + 1)
       ]_vars

\* The first call has rejected with the ledger's failure and the second call,
\* which was queued behind it, is in the initial resolution again.
RetryAfterFailure ==
    /\ pc[1] = "done" /\ result[1] = QueryError
    /\ doneAtCall[2] = 0
    /\ pc[2] = "getCode"
    /\ nonce = Undefined
    /\ queries = 2

\* ------------------------------------------------ properties, continued
\* C11: under fair scheduling, with every granted caller releasing, every
\* caller that has called acquire on a lock is eventually granted it.
NoStarvation ==
    \A c \in Callers :
        (pc[c] = "waiting") ~> (pc[c] # "waiting" /\ c \in Range(grants[key[c]]))

\* The first caller holds the lock, the second waits for it, and a third has
\* arrived behind the second.
WaitingWithLaterArrival ==
    \E t \in Targets :
        /\ arrivals[t] = <<1, 2, 3>>
        /\ grants[t] = <<1>>
        /\ pc[1] = "cs" /\ pc[2] = "waiting" /\ pc[3] = "waiting"

\* C12: an acquire or release on key k leaves the entry (presence, locked flag
\* and waiter queue) of every other key, the directly used Lock, and every
\* caller of another lock as they were; and an acquire on a key nobody holds is
\* granted at once, whatever the other keys' state.
KeyIndependence ==
    [][\A k \in Keys :
          (last'.key = k /\ last'.op \in {"acquire", "release"}) =>
              /\ \A j \in Keys \ {k} :
                    /\ (j \in DOMAIN locks') <=> (j \in DOMAIN locks)
                    /\ j \in DOMAIN locks => locks'[j] = locks[j]
              /\ lock' = lock
              /\ \A d \in Callers : (pc[d] # "idle" /\ key[d] # k) => pc'[d] = pc[d]
              /\ (last'.op = "acquire" /\ Holders(k) = {}) =>
                    \E c \in Callers :
                        /\ pc[c] = "idle" /\ pc'[c] = "resuming"
                        /\ key'[c] = k
                        /\ grants'[k] = Append(grants[k], c)]_vars

AcquiredFreeKeyBesideContendedKey ==
    \E k \in Keys, c \in Callers :
        /\ last = Acquired(k, 0)
        /\ Holders(k) = {c} /\ pc[c] = "resuming" /\ grants[k] = <<c>>
        /\ \E j \in Keys \ {k} : Holders(j) # {} /\ Waiting(j) # {}

\* What a withLock call whose func settled with outcome o passes on.
FuncOutcome(o) == IF o = "ok" THEN "value" ELSE FuncError
WithLockDone == {c \in Callers : mode[c] = "withLock" /\ pc[c] = "done"}

Locked(t) ==
    IF t = DirectLock THEN lock.mLocked
    ELSE IF t \in DOMAIN locks THEN locks[t].mLocked ELSE FALSE

\* C14: a Lock is locked whenever its waiter queue is non-empty or a holder is
\* active; a release that finds waiters takes exactly the head off the queue and
\* grants it the lock, which is locked in the state the release leaves; a
\* release that finds the queue empty leaves the lock unlocked.
LockedWhileInUse ==
    /\ [](\A t \in Targets : (Queue(t) # <<>> \/ Holders(t) # {}) => Locked(t))
    /\ [][\A t \in Targets :
            (last' = Released(t, NoError, Len(Queue(t)))) =>
                IF Queue(t) # <<>>
                  THEN /\ Locked(t)'
                       /\ Queue(t)' = Tail(Queue(t))
                       /\ grants'[t] = Append(grants[t], Head(Queue(t)))
                       /\ pc'[Head(Queue(t))] = "resuming"
                       /\ \A c \in Range(Tail(Queue(t))) : pc'[c] = "waiting"
                  ELSE /\ ~Locked(t)'
                       /\ grants'[t] = grants[t]]_vars

HandoffWithWaiterLeft ==
    /\ last = Released(DirectLock, NoError, 2)
    /\ lock = [mLocked |-> TRUE, waiters |-> <<3>>]
    /\ pc[1] = "done" /\ pc[2] = "resuming" /\ pc[3] = "waiting"

\* C15: once this.nonce is set no initial resolution is in flight or is started
\* again, whatever the ledger reports afterwards; this.nonce is never unset or
\* decreased, it changes only by one, and a read that then returns a value
\* returns the previous this.nonce plus one.
NoRequeryOnceCached ==
    /\ [](nonce # Undefined => InFlight = {})
    /\ [][nonce # Undefined =>
            /\ queries' = queries
            /\ nonce' \in {nonce, nonce + 1}
            /\ \A c \in Callers :
                  /\ pc'[c] \notin {"getCode", "getSafeNonce"}
                  /\ ret'[c] # ret[c] => (nonce' = nonce + 1 /\ ret'[c] = nonce + 1)
                  /\ encoded'[c] # encoded[c] => DecodeUint(encoded'[c]) = nonce]_vars

CachedReadAfterLedgerChange ==
    /\ changed /\ code \notin EmptyCodes /\ safeNonce = 41
    /\ queries = 1 /\ nonce = 1
    /\ Succeeded = {1, 2}
    /\ Returned(1) = 0 /\ Returned(2) = 1

\* The caller the Lock was last granted to.
LastGranted == grants[DirectLock][Len(grants[DirectLock])]

\* C16: this.nonce is read and written only by the caller that holds
\* this.lock: at most one call is between the grant of its acquire and its
\* release, it is the caller the lock was last granted to and the lock is
\* locked; and every step that runs getNonce (its start, and the continuation
\* of either ledger query) or assigns this.nonce is taken by that caller.
NonceUnderLock ==
    /\ [](/\ Cardinality(NonceHolders) <= 1
          /\ Cardinality(InFlight) <= 1
          /\ \A c \in NonceHolders : lock.mLocked /\ c = LastGranted)
    /\ [][\A c \in Callers :
            (\/ pc[c] \in {"resuming", "getCode", "getSafeNonce"} /\ pc'[c] # pc[c]
             \/ ret'[c] # ret[c]) =>
                /\ NonceHolders = {c}
                /\ NonceHolders' = {c}
                /\ \A d \in Callers \ {c} : pc'[d] = pc[d]]_vars
    /\ [][nonce' # nonce => \E c \in Callers : NonceHolders = {c} /\ pc'[c] = "gotNonce"]_vars

QueryInFlightWithTwoQueued ==
    /\ pc[1] = "getSafeNonce" /\ pc[2] = "waiting" /\ pc[3] = "waiting"
    /\ lock = [mLocked |-> TRUE, waiters |-> <<2, 3>>]
    /\ nonce = Undefined

\* The callers that were granted lock t and never release it.
StalledHolders(t) ==
    {c \in Callers : mode[c] \in {"stall", "reenter"} /\ key[c] = t /\ c \in Range(grants[t])}
\* The place of c's first acquire among the acquires on lock t.
FirstArrival(t, c) == CHOOSE i \in 1..Len(arrivals[t]) :
    arrivals[t][i] = c /\ \A j \in 1..(i - 1) : arrivals[t][j] # c

\* C17: while a caller that never releases holds lock t, the lock stays
\* locked, a key stays in the registry, the holder's grant is the last one on
\* t, and every acquire issued on t after the holder's own (its second acquire
\* included) is queued, in order, with its caller suspended; no step grants t.
HeldForever ==
    /\ [](\A t \in Targets : \A h \in StalledHolders(t) :
            /\ Locked(t)
            /\ t \in Keys => t \in DOMAIN locks
            /\ grants[t][Len(grants[t])] = h
            /\ Queue(t) = SubSeq(arrivals[t], FirstArrival(t, h) + 1, Len(arrivals[t]))
            /\ \A c \in Range(Queue(t)) : pc[c] = "waiting")
    /\ [][\A t \in Targets : StalledHolders(t) # {} => grants'[t] = grants[t]]_vars

ReenteredWithCallerQueuedBehind ==
    \E k \in Keys :
        /\ StalledHolders(k) = {1}
        /\ mode[1] = "reenter" /\ pc[1] = "waiting"
        /\ locks[k] = [mLocked |-> TRUE, waiters |-> <<1, 2>>]
        /\ grants[k] = <<1>>
        /\ pc[2] = "waiting"

\* C18: callers are numbered in the order of their calls.  Of two calls that
\* succeeded the earlier one returned the smaller value; the calls that failed
\* were issued before every call that succeeded; and the calls that succeeded
\* returned, in call order, a run without gaps, which starts at the value the
\* ledger reports when the ledger has not changed.
ValuesInCallOrder ==
    /\ \A a, b \in Succeeded : a < b => Returned(a) < Returned(b)
    /\ \A f \in FailedCalls, s \in Succeeded : f < s
    /\ \A s \in Succeeded :
          Returned(s) = Returned(Min(Succeeded)) + Cardinality({d \in Succeeded : d < s})
    /\ (~changed /\ Succeeded # {}) => Returned(Min(Succeeded)) = InitialValue

ConcurrentRunAfterFailedResolution ==
    /\ Concurrent /\ AllDone /\ ~changed
    /\ code \notin EmptyCodes /\ safeNonce = 41
    /\ FailedCalls = {1}
    /\ Succeeded = {2, 3}
    /\ Returned(2) = 41 /\ Returned(3) = 42

\* C19: the Lock stored under key k is the one its callers use: while a caller
\* holds or waits on k the key has an entry, which is locked and whose queue is
\* exactly the callers waiting on k; and an acquire on k that arrives while
\* another caller holds or waits on k is queued in that entry, not granted.
EntryKeptWhileInUse ==
    /\ [](\A k \in Keys :
            /\ (Holders(k) \cup Waiting(k) # {}) => (k \in DOMAIN locks /\ locks[k].mLocked)
            /\ Waiting(k) # {} => Holders(k) # {}
            /\ k \in DOMAIN locks =>
                  /\ Range(locks[k].waiters) = Waiting(k)
                  /\ Len(locks[k].waiters) = Cardinality(Waiting(k)))
    /\ [][\A k \in Keys :
            (last' = Acquired(k, Len(Queue(k))) /\ Holders(k) \cup Waiting(k) # {}) =>
                \E c \in Callers :
                    /\ pc[c] = "idle" /\ pc'[c] = "waiting" /\ key'[c] = k
                    /\ locks'[k] = [locks[k] EXCEPT !.waiters = Append(@, c)]
                    /\ grants'[k] = grants[k]
                    /\ Holders(k)' = Holders(k)]_vars

AcquireRightAfterHandoff ==
    \E k \in Keys :
        /\ last = Acquired(k, 0)
        /\ grants[k] = <<1, 2>>
        /\ pc[1] = "done" /\ pc[2] = "resuming" /\ pc[3] = "waiting"
        /\ locks[k] = [mLocked |-> TRUE, waiters |-> <<3>>]

\* C20: with withLock as the only use of the LockManager, when func has settled
\* and the finally block is about to run the key has an entry and its Lock is
\* locked; no release throws, and a completed call has neither of the two
\* release errors as its result.
FinallyReleaseNeverFails ==
    /\ [](\A c \in Callers :
            /\ pc[c] \in {"cs", "settled"} =>
                  (key[c] \in DOMAIN locks /\ locks[key[c]].mLocked)
            /\ pc[c] = "done" =>
                  (result[c] \notin {NoLockError, NotLockedError} /\ released[c] = 1))
    /\ [][last'.op = "release" => last'.threw = NoError]_vars

FinallyAfterRejectionWithWaiter ==
    \E k \in Keys :
        /\ last = Released(k, NoError, 1)
        /\ pc[1] = "done" /\ outcome[1] = "fail" /\ result[1] = FuncError
        /\ pc[2] = "resuming" /\ key[2] = k
        /\ locks[k] = [mLocked |-> TRUE, waiters |-> <<>>]

====
